---- MODULE Spec2Model ----
(***************************************************************************)
(* Wallet / withdrawal settlement of the contest platform backend.         *)
(*                                                                         *)
(* One user with one wallet (created at registration) issues HTTP          *)
(* requests; a second user appears where two users meet (a foreign         *)
(* reference, a transfer, a contest prize).                                *)
(* Every request is an async handler: it is split at its                   *)
(* `await` points, so the steps of several in-flight requests interleave   *)
(* as they do on the Node event loop.                                      *)
(*                                                                         *)
(* Money is counted in minor units (kobo): 100 kobo = 1 naira.  The        *)
(* columns are decimal(15,2), so every stored amount is a whole number of  *)
(* kobo, and rounding a sum of stored amounts to 2 decimals changes        *)
(* nothing.                                                                *)
(*                                                                         *)
(* Database: MySQL/InnoDB with TypeORM.                                    *)
(*  - findOne is a plain (non-locking) read.                               *)
(*  - repository.save outside a transaction persists the entity as it is   *)
(*    in memory (TypeORM writes every column that differs from the row).   *)
(*  - inside startTransaction()/commitTransaction() the reads see the      *)
(*    snapshot of the first read; save writes the columns the handler      *)
(*    changed; all writes of the transaction become visible at commit.     *)
(*    The row lock taken by the UPDATE is held until commit, so the        *)
(*    writes and the commit are one step for every other request.          *)
(***************************************************************************)
EXTENDS Integers, Sequences, FiniteSets, TLC

\* ---------------------------------------------------------------- bounds
NumReqs == 2
MaxFeeAmount == 20000
MaxRefundRuns == 2

\* ------------------------------------------------------ program constants
MinorPerMajor == 100
FixedFee == 100
PercentMilli == 25

Reqs == 1..NumReqs
\* amounts in kobo: 40000 = 400.00 naira, 5000 = 50.00 naira
FundAmounts == {40000}
WithdrawAmounts == {40000}
ExpectedAmounts == {0, 5000, 40000}
\* the amounts of the fee calculation: every whole number of kobo up to
\* MaxFeeAmount, and 10000.00 naira
FeeAmounts == (1..MaxFeeAmount) \cup {1000000}
Refs == {"ref1"}
NoRef == "none"

VARIABLES
  userType,      \* users.user_type of the wallet's owner, as carried by the JWT
  wallet,        \* the wallets row of the user
  otherWallet,   \* the wallets row of the other user
  transactions,  \* the transactions table, in insertion order
  ledger,        \* the wallet_ledger table, in insertion order
  withdrawals,   \* the withdrawals table, in insertion order
  contest,       \* the brand's contest row (is_boosted, status)
  bankAccounts,  \* the ids of the rows of the bank_accounts table
  gateway,       \* the payment gateway: amount paid per reference, 0 = unknown
  req,           \* the in-flight HTTP requests: position and local variables
                 \* (open: a query runner's transaction is open; sent: the
                 \* amount posted to the gateway's transfer API, -1 = none)
  feeAmount,     \* fee calculation: the requested amount
  feeResult      \* fee calculation: <<fee, net>> once computed

vars == <<userType, wallet, otherWallet, transactions, ledger, withdrawals,
          contest, bankAccounts, gateway, req, feeAmount, feeResult>>

dbVars == <<wallet, otherWallet, transactions, ledger, withdrawals, contest,
           bankAccounts>>

\* ------------------------------------------------------------- users
\* the requesting user and another user of the platform
Me == "me"

Other == "other"

\* bank_accounts: one saved account of each (POST /bank-accounts), by id
BankAccountOwner == [acc_mine |-> Me, acc_other |-> Other]

BankAccountIds == DOMAIN BankAccountOwner

\* a bank account id no row has
MissingId == "missing"

\* withdrawals: the user's own rows are numbered from 1 in insertion
\* order; a row of the other user, and an id no row has
OtherWithdrawalIds == {-1}

MissingWithdrawalIds == {0}

\* ------------------------------------------------------------- entities
NoWallet == [balance |-> -1, pending_balance |-> -1, total_deposited |-> -1,
             total_earned |-> -1]

NewWallet == [balance |-> 0, pending_balance |-> 0, total_deposited |-> 0,
              total_earned |-> 0]

IdleReq == [kind |-> "none", pc |-> "idle", amount |-> 0, wallet |-> NoWallet,
            w |-> NoWallet, tx |-> 0, wd |-> 0, ref |-> NoRef, expected |-> 0,
            transfer |-> "none", resp |-> "none", open |-> FALSE, sent |-> -1,
            from_id |-> "none", to_id |-> "none", to_w |-> NoWallet]

\* a Transaction of the requesting user
Transaction(type, status, amount, reference) ==
  [transaction_type |-> type, status |-> status, amount |-> amount,
   reference |-> reference, user_id |-> Me]

WalletLedger(entryType, amount, balanceAfter, txId, context, reference) ==
  [entry_type |-> entryType, amount |-> amount, balance_after |-> balanceAfter,
   transaction_id |-> txId, context |-> context, reference |-> reference]

Withdrawal(amount, fee, net, txId) ==
  [amount |-> amount, fee |-> fee, net_amount |-> net, status |-> "processing",
   transaction_id |-> txId, external_reference |-> "none"]

\* the contest of the brand: running or ended, not boosted, not completed
NewContest == [is_boosted |-> FALSE, status |-> "active"]

\* ------------------------------------------------------------ arithmetic
Max(a, b) == IF a >= b THEN a ELSE b

\* Math.round(x) for x = n / d with d > 0: floor(x + 1/2)
RoundDiv(n, d) == (2 * n + d) \div (2 * d)

\* amount * 0.025 * 100 is evaluated in IEEE-754 doubles.  Where the exact
\* product is a tie (k + 1/2 kobo), the double product is below the tie
\* for these amounts (up to 300.00 naira), e.g. 1.4 * 0.025 * 100 =
\* 3.4999999999999996, and Math.round takes it down.
DoubleBelowTie ==
  {140, 580, 4140, 8460, 8780, 9460, 16060, 16420, 17060, 17420, 18060,
   18420, 19060}

\* percentFee = Math.round(amount * 0.025 * 100) / 100, in kobo
PercentFee(amount) ==
  IF amount \in DoubleBelowTie
    THEN RoundDiv(amount * PercentMilli, 1000) - 1
    ELSE RoundDiv(amount * PercentMilli, 1000)

\* fee = percentFee + fixedFee
Fee(amount) == PercentFee(amount) + FixedFee * MinorPerMajor

\* net = Math.max(0, Math.round((amount - fee) * 100) / 100)
Net(amount) == Max(0, amount - Fee(amount))

\* ------------------------------------------------------------ persistence
\* repository.save(entity) outside a transaction
Save(entity) == entity

\* manager.save(entity) inside a transaction: the columns that differ from
\* the entity as the transaction read it are written to the current row
TxSave(row, snapshot, entity) ==
  [f \in DOMAIN row |-> IF entity[f] # snapshot[f] THEN entity[f] ELSE row[f]]

\* a save that loses the status
KeepStatus(table, id, status) == table

\* entity.status = status; save(entity)
SetStatus(table, id, status) == [table EXCEPT ![id].status = status]

\* ------------------------------------------------------------ requests
\* The handler has answered: its local variables are gone and its
\* transaction, if one was open, is committed or rolled back.  What it did
\* to the tables stays, with the ids of the rows it created.
Answered(q, resp) ==
  [IdleReq EXCEPT !.kind = q.kind, !.pc = "done", !.resp = resp, !.tx = q.tx,
                  !.wd = q.wd, !.transfer = q.transfer]

Finish(r, resp) == req' = [req EXCEPT ![r] = Answered(req[r], resp)]

\* Requests are taken in slot order (slots are interchangeable).
CanStart(r) ==
  /\ req[r].pc = "idle"
  /\ \A q \in Reqs : q < r => req[q].pc # "idle"

\* ---------------------------------------------- POST /user/wallet/add-funds
AddFundsRead(r, amount) ==
  /\ CanStart(r)
  /\ req' = [req EXCEPT ![r] = [IdleReq EXCEPT !.kind = "add_funds",
                                  !.pc = "af_save", !.amount = amount,
                                  !.w = wallet]]
  /\ UNCHANGED <<dbVars, gateway, userType, feeAmount, feeResult>>

AddFundsSaveWallet(r) ==
  /\ req[r].pc = "af_save"
  /\ LET w == [req[r].w EXCEPT !.balance = @ + req[r].amount]
     IN /\ wallet' = Save(w)
        /\ req' = [req EXCEPT ![r].pc = "af_tx", ![r].w = w]
  /\ UNCHANGED <<transactions, ledger, withdrawals, contest, gateway, userType,
                 feeAmount, feeResult,
                 bankAccounts, otherWallet>>

AddFundsSaveTx(r) ==
  /\ req[r].pc = "af_tx"
  /\ transactions' = Append(transactions,
        Transaction("deposit", "completed", req[r].amount, NoRef))
  /\ Finish(r, "ok200")
  /\ UNCHANGED <<wallet, ledger, withdrawals, contest, gateway, userType,
                 feeAmount, feeResult,
                 bankAccounts, otherWallet>>

\* ------------------------------------------------------ POST /withdrawals
\* a handler without the balance comparisons
NoBalanceComparison(w, amount) == FALSE

\* wallet.balance < amount (pre-check) and w.balance < amount (stage 1)
InsufficientBalance(w, amount) == w.balance < amount

\* the destination in the request body: the id of a saved bank account of
\* the user, complete inline details, both of these, an id that no bank
\* account has, the id of another user's bank account, or nothing usable
AccountInputs ==
  {"saved", "inline", "both", "unknown_id", "foreign_id", "none"}

\* a lookup of a bank account by id alone
FindBankAccountById(id, userId) == id \in bankAccounts

\* repo.findOne({ where: { id, user_id } }) on bank_accounts finds a row
FindBankAccount(id, userId) ==
  id \in bankAccounts /\ BankAccountOwner[id] = userId

\* findOne({ where: { id, user_id } }) on withdrawals finds a row
FindWithdrawal(id, userId) ==
  \/ userId = Me /\ id \in 1..Len(withdrawals)
  \/ userId = Other /\ id \in OtherWithdrawalIds

\* the bank_account_id of the body
AccountId(account) ==
  CASE account \in {"saved", "both"} -> "acc_mine"
    [] account = "foreign_id" -> "acc_other"
    [] OTHER -> MissingId

\* baRepo.findOne({ id: bank_account_id, user_id: req.user.id }) finds a row
AccountFound(account) == FindBankAccount(AccountId(account), Me)

\* bank_account_id is present in the body
HasAccountId(account) ==
  account \in {"saved", "both", "unknown_id", "foreign_id"}

HoldPendingOnly(w, amount) ==
  [w EXCEPT !.pending_balance = w.pending_balance + amount]

\* stage 1: balance -= amount, pending_balance += amount
HoldEntity(w, amount) ==
  [w EXCEPT !.balance = w.balance - amount,
            !.pending_balance = w.pending_balance + amount]

\* a refund that leaves the hold in pending_balance
RefundBalanceOnly(w, amount) == [w EXCEPT !.balance = w.balance + amount]

\* stage 2A: balance += amount, pending_balance = max(0, pending - amount)
RefundEntity(w, amount) ==
  [w EXCEPT !.balance = w.balance + amount,
            !.pending_balance = Max(0, w.pending_balance - amount)]

\* a settle that leaves the hold in pending_balance
SettleKeepsPending(w, amount) == w

\* stage 2B: pending_balance = max(0, pending - amount)
SettleEntity(w, amount) ==
  [w EXCEPT !.pending_balance = Max(0, w.pending_balance - amount)]

\* a transfer of the requested amount
TransferGross(amount) == amount

\* the amount initiateBankTransfer(net, ...) sends to the gateway:
\* amountInKobo = Math.round(net * 100)
TransferAmount(amount) == Net(amount)

\* authorize(CREATOR), pre-check on the wallet, destination account
WithdrawRequest(r, amount, account) ==
  /\ CanStart(r)
  /\ userType = "creator"
  /\ LET started == [IdleReq EXCEPT !.kind = "withdraw", !.amount = amount,
                                    !.wallet = wallet]
         answer(resp) == Answered(started, resp)
     IN req' = [req EXCEPT ![r] =
          IF InsufficientBalance(wallet, amount) THEN answer("insufficient400")
          ELSE IF HasAccountId(account) /\ ~AccountFound(account)
            THEN answer("account404")
          ELSE IF ~HasAccountId(account) /\ account # "inline"
            THEN answer("details400")
          ELSE [started EXCEPT !.pc = "wd_hold"]]
  /\ UNCHANGED <<dbVars, gateway, userType, feeAmount, feeResult>>

\* stage 1, startTransaction and findOne; throws on insufficient balance
WithdrawHoldRead(r) ==
  /\ req[r].pc = "wd_hold"
  /\ IF InsufficientBalance(wallet, req[r].amount)
       THEN Finish(r, "internal500")
       ELSE req' = [req EXCEPT ![r].pc = "wd_hold_commit", ![r].w = wallet,
                               ![r].open = TRUE]
  /\ UNCHANGED <<dbVars, gateway, userType, feeAmount, feeResult>>

\* stage 1, the writes and commitTransaction
WithdrawHoldCommit(r) ==
  /\ req[r].pc = "wd_hold_commit"
  /\ LET w == HoldEntity(req[r].w, req[r].amount)
         savedTx == Len(transactions) + 1
     IN /\ wallet' = TxSave(wallet, req[r].w, w)
        /\ transactions' = Append(transactions,
              Transaction("withdrawal", "pending", req[r].amount, NoRef))
        /\ ledger' = Append(ledger,
              WalletLedger("debit", req[r].amount, w.balance, savedTx,
                           "withdrawal_hold", NoRef))
        /\ req' = [req EXCEPT ![r].pc = "wd_row", ![r].tx = savedTx,
                              ![r].w = NoWallet, ![r].open = FALSE]
  /\ UNCHANGED <<withdrawals, contest, gateway, userType, feeAmount, feeResult,
                 bankAccounts, otherWallet>>

\* wdRepo.save(wd), after the hold has committed; the handler then calls
\* initiateBankTransfer, which posts to the gateway
WithdrawSaveRow(r) ==
  /\ req[r].pc = "wd_row"
  /\ withdrawals' = Append(withdrawals,
        Withdrawal(req[r].amount, Fee(req[r].amount), Net(req[r].amount),
                   req[r].tx))
  /\ req' = [req EXCEPT ![r].pc = "wd_transfer", ![r].wd = Len(withdrawals) + 1,
                        ![r].sent = TransferAmount(req[r].amount)]
  /\ UNCHANGED <<wallet, transactions, ledger, contest, gateway, userType,
                 feeAmount, feeResult,
                 bankAccounts, otherWallet>>

\* paymentService.initiateBankTransfer answers (every error becomes
\* success = false); the handler opens the transaction of stage 2A or 2B
\* and reads the wallet in it.  The answer touches no shared state, so it
\* is one step with the read that follows it.
WithdrawTransfer(r, success) ==
  /\ req[r].pc = "wd_transfer"
  /\ req' = [req EXCEPT
        ![r].pc = IF success THEN "wd_settle_commit" ELSE "wd_refund_commit",
        ![r].transfer = IF success THEN "ok" ELSE "failed",
        ![r].w = wallet, ![r].open = TRUE]
  /\ UNCHANGED <<dbVars, gateway, userType, feeAmount, feeResult>>

\* stage 2A, the writes and commitTransaction
WithdrawRefundCommit(r) ==
  /\ req[r].pc = "wd_refund_commit"
  /\ LET w == RefundEntity(req[r].w, req[r].amount)
     IN /\ wallet' = TxSave(wallet, req[r].w, w)
        /\ withdrawals' = SetStatus(withdrawals, req[r].wd, "failed")
        /\ transactions' = SetStatus(transactions, req[r].tx, "failed")
        /\ ledger' = Append(ledger,
              WalletLedger("credit", req[r].amount, w.balance, req[r].tx,
                           "withdrawal_refund", NoRef))
  /\ Finish(r, "transfer400")
  /\ UNCHANGED <<contest, gateway, userType, feeAmount, feeResult,
                 bankAccounts, otherWallet>>

\* stage 2B, the writes and commitTransaction
WithdrawSettleCommit(r) ==
  /\ req[r].pc = "wd_settle_commit"
  /\ LET w == SettleEntity(req[r].w, req[r].amount)
         savedFeeTx == Len(transactions) + 1
         wdRow == withdrawals[req[r].wd]
     IN /\ wallet' = TxSave(wallet, req[r].w, w)
        /\ transactions' = Append(SetStatus(transactions, req[r].tx, "completed"),
              Transaction("withdrawal_fee", "completed", wdRow.fee, NoRef))
        /\ withdrawals' = [withdrawals EXCEPT
              ![req[r].wd].status = "completed",
              ![req[r].wd].external_reference = "transfer"]
        /\ ledger' = ledger \o
              << WalletLedger("debit", wdRow.net_amount, w.balance, req[r].tx,
                              "withdrawal_settle", NoRef),
                 WalletLedger("debit", wdRow.fee, w.balance, savedFeeTx,
                              "withdrawal_fee", NoRef) >>
  /\ Finish(r, "created201")
  /\ UNCHANGED <<contest, gateway, userType, feeAmount, feeResult,
                 bankAccounts, otherWallet>>

\* ---------------------------------------------------- POST /deposits/init
\* initializePayment creates the payment at the gateway, which issues a
\* fresh reference; the handler records a pending Transaction with it.
DepositInit(r, amount, reference, success) ==
  /\ CanStart(r)
  /\ userType = "brand"
  /\ gateway[reference] = 0
  /\ LET started == [IdleReq EXCEPT !.kind = "deposit_init", !.pc = "done"]
     IN IF success
          THEN /\ gateway' = [gateway EXCEPT ![reference] = amount]
               /\ transactions' = Append(transactions,
                     Transaction("deposit", "pending", amount, reference))
               /\ req' = [req EXCEPT ![r] =
                     [started EXCEPT !.resp = "ok200",
                                     !.tx = Len(transactions) + 1]]
          ELSE /\ req' = [req EXCEPT ![r] = [started EXCEPT !.resp = "init400"]]
               /\ UNCHANGED <<gateway, transactions,
                 bankAccounts, otherWallet>>
  /\ UNCHANGED <<wallet, ledger, withdrawals, contest, userType, feeAmount,
                 feeResult,
                 bankAccounts, otherWallet>>

\* The brand pays at the gateway without /deposits/init (a payment started
\* by the client): the reference has no pending Transaction.
DirectPayment(amount, reference) ==
  /\ userType = "brand"
  /\ gateway[reference] = 0
  /\ gateway' = [gateway EXCEPT ![reference] = amount]
  /\ UNCHANGED <<dbVars, req, userType, feeAmount, feeResult>>

\* -------------------------------------------------- POST /deposits/verify
\* txRepo.findOne({ user_id, reference, status: PENDING }): 0 when none
PendingTx(reference) ==
  LET found == {i \in 1..Len(transactions) :
                   /\ transactions[i].user_id = Me
                   /\ transactions[i].reference = reference
                   /\ transactions[i].status = "pending"}
  IN IF found = {} THEN 0 ELSE CHOOSE i \in found : \A j \in found : i <= j

\* a credit that leaves total_deposited alone
CreditBalanceOnly(w, amount) == [w EXCEPT !.balance = w.balance + amount]

\* wallet.balance += amount; wallet.total_deposited += amount
CreditEntity(w, amount) ==
  [w EXCEPT !.balance = w.balance + amount,
            !.total_deposited = w.total_deposited + amount]

\* authorize(BRAND) and the lookup of the pending Transaction
DepositVerifyLookup(r, reference, expectedAmount) ==
  /\ CanStart(r)
  /\ userType = "brand"
  /\ req' = [req EXCEPT ![r] =
        [IdleReq EXCEPT !.kind = "deposit_verify", !.pc = "dv_verify",
                        !.ref = reference, !.expected = expectedAmount,
                        !.tx = PendingTx(reference)]]
  /\ UNCHANGED <<dbVars, gateway, userType, feeAmount, feeResult>>

\* a verification that credits whatever the gateway answers
DepositVerifyUnchecked(r, verified) ==
  /\ req[r].pc = "dv_verify"
  /\ req' = [req EXCEPT ![r].pc = "dv_save", ![r].amount = gateway[req[r].ref],
                        ![r].expected = 0, ![r].w = wallet]
  /\ UNCHANGED <<dbVars, gateway, userType, feeAmount, feeResult>>

\* paymentService.verifyPayment answers, the three amount checks, and the
\* read of the wallet (walletRepo.findOne / getWalletByUserId).  The answer
\* and the checks touch no shared state that changes, so they are one step
\* with the read that follows them.
DepositVerifyGateway(r, verified) ==
  /\ req[r].pc = "dv_verify"
  /\ LET amount == gateway[req[r].ref]
     IN IF ~verified \/ amount = 0
          THEN Finish(r, "verify400")
        ELSE IF req[r].expected # 0 /\ req[r].expected # amount
          THEN Finish(r, "mismatch400")
        ELSE IF req[r].tx # 0 /\ transactions[req[r].tx].amount # amount
          THEN Finish(r, "recorded400")
        ELSE req' = [req EXCEPT ![r].pc = "dv_save", ![r].amount = amount,
                                ![r].expected = 0, ![r].w = wallet]
  /\ UNCHANGED <<dbVars, gateway, userType, feeAmount, feeResult>>

\* walletRepo.save(wallet)
DepositVerifySaveWallet(r) ==
  /\ req[r].pc = "dv_save"
  /\ LET w == CreditEntity(req[r].w, req[r].amount)
     IN /\ wallet' = Save(w)
        /\ req' = [req EXCEPT ![r].pc = "dv_tx", ![r].w = w]
  /\ UNCHANGED <<transactions, ledger, withdrawals, contest, gateway, userType,
                 feeAmount, feeResult,
                 bankAccounts, otherWallet>>

\* txRepo.save: the pending Transaction becomes completed, or (fallback)
\* a completed Transaction is created
DepositVerifySaveTx(r) ==
  /\ req[r].pc = "dv_tx"
  /\ IF req[r].tx # 0
       THEN /\ transactions' = SetStatus(transactions, req[r].tx, "completed")
            /\ req' = [req EXCEPT ![r].pc = "dv_ledger"]
       ELSE /\ transactions' = Append(transactions,
                  Transaction("deposit", "completed", req[r].amount, req[r].ref))
            /\ req' = [req EXCEPT ![r].pc = "dv_ledger",
                                  ![r].tx = Len(transactions) + 1]
  /\ UNCHANGED <<wallet, ledger, withdrawals, contest, gateway, userType,
                 feeAmount, feeResult,
                 bankAccounts, otherWallet>>

\* ledgerRepo.save(led)
DepositVerifySaveLedger(r) ==
  /\ req[r].pc = "dv_ledger"
  /\ ledger' = Append(ledger,
        WalletLedger("credit", req[r].amount, req[r].w.balance, req[r].tx,
                     "deposit", req[r].ref))
  /\ Finish(r, "ok200")
  /\ UNCHANGED <<wallet, transactions, withdrawals, contest, gateway, userType,
                 feeAmount, feeResult,
                 bankAccounts, otherWallet>>

\* ------------------------------------------------ POST /contests/:id/boost
BoostAmounts == {5000}

\* authorize(BRAND), contest and wallet lookups, balance check
BoostRequest(r, boostAmount) ==
  /\ CanStart(r)
  /\ userType = "brand"
  /\ LET started == [IdleReq EXCEPT !.kind = "boost", !.amount = boostAmount]
         answer(resp) == Answered(started, resp)
     IN req' = [req EXCEPT ![r] =
          IF contest.is_boosted THEN answer("boosted400")
          ELSE IF wallet.balance < boostAmount THEN answer("insufficient400")
          ELSE [started EXCEPT !.pc = "bc_save", !.w = wallet]]
  /\ UNCHANGED <<dbVars, gateway, userType, feeAmount, feeResult>>

\* wallet.balance -= boostAmount; save
BoostSaveWallet(r) ==
  /\ req[r].pc = "bc_save"
  /\ wallet' = Save([req[r].w EXCEPT !.balance = @ - req[r].amount])
  /\ req' = [req EXCEPT ![r].pc = "bc_contest", ![r].w = NoWallet]
  /\ UNCHANGED <<transactions, ledger, withdrawals, contest, gateway, userType,
                 feeAmount, feeResult,
                 bankAccounts, otherWallet>>

\* contest.is_boosted = true; save
BoostSaveContest(r) ==
  /\ req[r].pc = "bc_contest"
  /\ contest' = [contest EXCEPT !.is_boosted = TRUE]
  /\ req' = [req EXCEPT ![r].pc = "bc_tx"]
  /\ UNCHANGED <<wallet, transactions, ledger, withdrawals, gateway, userType,
                 feeAmount, feeResult,
                 bankAccounts, otherWallet>>

\* the contest_boost Transaction
BoostSaveTx(r) ==
  /\ req[r].pc = "bc_tx"
  /\ transactions' = Append(transactions,
        Transaction("contest_boost", "completed", req[r].amount, NoRef))
  /\ Finish(r, "ok200")
  /\ UNCHANGED <<wallet, ledger, withdrawals, contest, gateway, userType,
                 feeAmount, feeResult,
                 bankAccounts, otherWallet>>

\* ------------------------------------------------------------ failures
\* A database call of the handler throws (connection lost, lock wait
\* timeout, constraint or column error).  An open transaction is rolled
\* back; the handler's outer catch answers 500 (the contest service's
\* own catch makes it a 400).
AwaitingDb == {"af_save", "af_tx", "wd_hold", "wd_hold_commit", "wd_row",
               "wd_refund_commit", "wd_settle_commit",
               "dv_save", "dv_tx", "dv_ledger",
               "bc_save", "bc_contest", "bc_tx",
               "tf_read_to", "tf_save_from", "tf_save_to", "tf_tx_from",
               "tf_tx_to",
               "cc_status", "cc_wallet", "cc_credit", "cc_tx"}

Fail(r) ==
  /\ req[r].pc \in AwaitingDb
  /\ Finish(r, IF req[r].kind \in {"boost", "complete_contest"}
                 THEN "failed400" ELSE "internal500")
  /\ UNCHANGED <<dbVars, gateway, userType, feeAmount, feeResult>>

\* ------------------------------------------------------------ system
Init ==
  /\ userType \in {"brand", "creator"}
  /\ \/ /\ wallet = NewWallet
        /\ transactions = <<>>
     \/ \E a \in FundAmounts :
          /\ wallet = [NewWallet EXCEPT !.balance = a]
          /\ transactions = << Transaction("deposit", "completed", a, NoRef) >>
  /\ ledger = <<>>
  /\ withdrawals = <<>>
  /\ contest = NewContest
  /\ bankAccounts = BankAccountIds
  /\ otherWallet = NewWallet
  /\ gateway = [ref \in Refs |-> 0]
  /\ req = [r \in Reqs |-> IdleReq]
  /\ feeAmount = 0
  /\ feeResult = <<>>

Next ==
  \/ \E a \in FundAmounts, ref \in Refs : DirectPayment(a, ref)
  \/ \E r \in Reqs :
    \/ \E a \in FundAmounts, ref \in Refs, ok \in BOOLEAN :
          DepositInit(r, a, ref, ok)
    \/ \E ref \in Refs, e \in ExpectedAmounts : DepositVerifyLookup(r, ref, e)
    \/ \E ok \in BOOLEAN : DepositVerifyGateway(r, ok)
    \/ DepositVerifySaveWallet(r)
    \/ DepositVerifySaveTx(r)
    \/ DepositVerifySaveLedger(r)
    \/ \E a \in BoostAmounts : BoostRequest(r, a)
    \/ BoostSaveWallet(r)
    \/ BoostSaveContest(r)
    \/ BoostSaveTx(r)
    \/ \E a \in FundAmounts : AddFundsRead(r, a)
    \/ AddFundsSaveWallet(r)
    \/ AddFundsSaveTx(r)
    \/ \E a \in WithdrawAmounts, acc \in AccountInputs :
          WithdrawRequest(r, a, acc)
    \/ WithdrawHoldRead(r)
    \/ WithdrawHoldCommit(r)
    \/ WithdrawSaveRow(r)
    \/ \E ok \in BOOLEAN : WithdrawTransfer(r, ok)
    \/ WithdrawRefundCommit(r)
    \/ WithdrawSettleCommit(r)
    \/ Fail(r)

Spec == Init /\ [][Next]_vars

\* ------------------------------------------------- the fee calculation
\* fee and net of POST /withdrawals as a function of the amount
ComputeFee ==
  /\ feeResult = <<>>
  /\ feeResult' = << Fee(feeAmount), Net(feeAmount) >>
  /\ UNCHANGED <<dbVars, gateway, userType, req, feeAmount>>

FeeInit ==
  /\ userType = "creator"
  /\ wallet = NewWallet
  /\ transactions = <<>>
  /\ ledger = <<>>
  /\ withdrawals = <<>>
  /\ contest = NewContest
  /\ bankAccounts = BankAccountIds
  /\ otherWallet = NewWallet
  /\ gateway = [ref \in Refs |-> 0]
  /\ req = [r \in Reqs |-> IdleReq]
  /\ feeAmount \in FeeAmounts
  /\ feeResult = <<>>

FeeNext == ComputeFee

FeeSpec == FeeInit /\ [][FeeNext]_vars

\* ------------------------------------------- stage 2A run a second time
\* The number of withdrawal_refund ledger entries of a hold Transaction.
RefundRuns(txId) ==
  Cardinality({i \in 1..Len(ledger) :
                 /\ ledger[i].context = "withdrawal_refund"
                 /\ ledger[i].transaction_id = txId})

\* The block of stage 2A (startTransaction .. commitTransaction) executed
\* again for a Withdrawal it has already refunded, as a retry does once
\* the requests in flight have been answered.  The
\* block reads the wallet and writes; it does not read the Withdrawal's or
\* the Transaction's status.
WithdrawRefundAgain(i) ==
  /\ i \in 1..Len(withdrawals)
  /\ withdrawals[i].status = "failed"
  /\ \A r \in Reqs : req[r].pc \in {"idle", "done"}
  /\ RefundRuns(withdrawals[i].transaction_id) < MaxRefundRuns
  /\ LET amount == withdrawals[i].amount
         w == RefundEntity(wallet, amount)
     IN /\ wallet' = TxSave(wallet, wallet, w)
        /\ withdrawals' = SetStatus(withdrawals, i, "failed")
        /\ transactions' =
              SetStatus(transactions, withdrawals[i].transaction_id, "failed")
        /\ ledger' = Append(ledger,
              WalletLedger("credit", amount, w.balance,
                           withdrawals[i].transaction_id,
                           "withdrawal_refund", NoRef))
  /\ UNCHANGED <<contest, gateway, userType, req, feeAmount, feeResult,
                 bankAccounts, otherWallet>>

RetryNext ==
  \/ Next
  \/ \E i \in 1..NumReqs : WithdrawRefundAgain(i)

RetrySpec == Init /\ [][RetryNext]_vars

\* ------------------------------- the gateway reports another amount
\* The amount of a payment is what the gateway reports at verification
\* (verify.data.amount); the pending Transaction carries the amount of the
\* init request's body.  Here the gateway reports 50.00 for a payment
\* initialized or started with 400.00.
OtherPaidAmounts == {5000}

GatewayReportsOther(reference, amount) ==
  /\ gateway[reference] \in FundAmounts
  /\ gateway' = [gateway EXCEPT ![reference] = amount]
  /\ UNCHANGED <<dbVars, req, userType, feeAmount, feeResult>>

VerifyNext ==
  \/ Next
  \/ \E ref \in Refs, a \in OtherPaidAmounts : GatewayReportsOther(ref, a)

VerifySpec == Init /\ [][VerifyNext]_vars

\* ------------------------------------- a deposit of the other user
\* The other user, a brand, initializes a deposit and pays it at the
\* gateway: POST /deposits/init records a pending Transaction with that
\* user's id and the gateway's reference.
OtherDepositInit(amount, reference) ==
  /\ gateway[reference] = 0
  /\ gateway' = [gateway EXCEPT ![reference] = amount]
  /\ transactions' = Append(transactions,
        [Transaction("deposit", "pending", amount, reference)
           EXCEPT !.user_id = Other])
  /\ UNCHANGED <<wallet, otherWallet, ledger, withdrawals, contest,
                 bankAccounts, req, userType, feeAmount, feeResult>>

ForeignNext ==
  \/ Next
  \/ \E a \in FundAmounts, ref \in Refs : OtherDepositInit(a, ref)

ForeignSpec == Init /\ [][ForeignNext]_vars

\* ------------------------------------------ WalletService.transferFunds
Users == {Me, Other}

\* the wallets row of a user
WalletOf(userId) == IF userId = Me THEN wallet ELSE otherWallet

\* the save of a wallet entity of a user, outside a transaction
SaveWalletOf(userId, entity) ==
  IF userId = Me
    THEN wallet' = Save(entity) /\ UNCHANGED otherWallet
    ELSE otherWallet' = Save(entity) /\ UNCHANGED wallet

\* fromWallet = getWalletByUserId(fromUserId)
TransferReadFrom(r, fromUserId, toUserId, amount) ==
  /\ CanStart(r)
  /\ req' = [req EXCEPT ![r] =
        [IdleReq EXCEPT !.kind = "transfer", !.pc = "tf_read_to",
                        !.amount = amount, !.from_id = fromUserId,
                        !.to_id = toUserId, !.w = WalletOf(fromUserId)]]
  /\ UNCHANGED <<dbVars, gateway, userType, feeAmount, feeResult>>

\* toWallet = getWalletByUserId(toUserId); the balance check, which throws
\* 'Insufficient balance'
TransferReadTo(r) ==
  /\ req[r].pc = "tf_read_to"
  /\ IF req[r].w.balance < req[r].amount
       THEN Finish(r, "insufficient_error")
       ELSE req' = [req EXCEPT ![r].pc = "tf_save_from",
                               ![r].to_w = WalletOf(req[r].to_id)]
  /\ UNCHANGED <<dbVars, gateway, userType, feeAmount, feeResult>>

\* fromWallet.balance -= amount; save(fromWallet)
TransferSaveFrom(r) ==
  /\ req[r].pc = "tf_save_from"
  /\ SaveWalletOf(req[r].from_id,
                  [req[r].w EXCEPT !.balance = @ - req[r].amount])
  /\ req' = [req EXCEPT ![r].pc = "tf_save_to"]
  /\ UNCHANGED <<transactions, ledger, withdrawals, contest, bankAccounts,
                 gateway, userType, feeAmount, feeResult>>

\* toWallet.balance += amount; save(toWallet)
TransferSaveTo(r) ==
  /\ req[r].pc = "tf_save_to"
  /\ SaveWalletOf(req[r].to_id,
                  [req[r].to_w EXCEPT !.balance = @ + req[r].amount])
  /\ req' = [req EXCEPT ![r].pc = "tf_tx_from"]
  /\ UNCHANGED <<transactions, ledger, withdrawals, contest, bankAccounts,
                 gateway, userType, feeAmount, feeResult>>

\* save(fromTransaction)
TransferSaveFromTx(r) ==
  /\ req[r].pc = "tf_tx_from"
  /\ transactions' = Append(transactions,
        [Transaction("transfer", "completed", req[r].amount, NoRef)
           EXCEPT !.user_id = req[r].from_id])
  /\ req' = [req EXCEPT ![r].pc = "tf_tx_to"]
  /\ UNCHANGED <<wallet, otherWallet, ledger, withdrawals, contest,
                 bankAccounts, gateway, userType, feeAmount, feeResult>>

\* save(toTransaction); the call returns
TransferSaveToTx(r) ==
  /\ req[r].pc = "tf_tx_to"
  /\ transactions' = Append(transactions,
        [Transaction("transfer", "completed", req[r].amount, NoRef)
           EXCEPT !.user_id = req[r].to_id])
  /\ Finish(r, "transferred")
  /\ UNCHANGED <<wallet, otherWallet, ledger, withdrawals, contest,
                 bankAccounts, gateway, userType, feeAmount, feeResult>>

\* Each user's wallet is new or was funded by one add-funds.
TransferInit ==
  /\ userType \in {"brand", "creator"}
  /\ \E mine, theirs \in SUBSET FundAmounts :
       LET funded(u, amounts) ==
             IF amounts = {} THEN <<>>
             ELSE << [Transaction("deposit", "completed",
                                  CHOOSE a \in amounts : TRUE, NoRef)
                        EXCEPT !.user_id = u] >>
           balance(amounts) ==
             IF amounts = {} THEN 0 ELSE CHOOSE a \in amounts : TRUE
       IN /\ Cardinality(mine) <= 1
          /\ Cardinality(theirs) <= 1
          /\ wallet = [NewWallet EXCEPT !.balance = balance(mine)]
          /\ otherWallet = [NewWallet EXCEPT !.balance = balance(theirs)]
          /\ transactions = funded(Me, mine) \o funded(Other, theirs)
  /\ ledger = <<>>
  /\ withdrawals = <<>>
  /\ contest = NewContest
  /\ bankAccounts = BankAccountIds
  /\ gateway = [ref \in Refs |-> 0]
  /\ req = [r \in Reqs |-> IdleReq]
  /\ feeAmount = 0
  /\ feeResult = <<>>

TransferAmounts == {40000}

TransferNext ==
  \E r \in Reqs :
    \/ \E from \in Users, to \in Users, a \in TransferAmounts :
          TransferReadFrom(r, from, to, a)
    \/ TransferReadTo(r)
    \/ TransferSaveFrom(r)
    \/ TransferSaveTo(r)
    \/ TransferSaveFromTx(r)
    \/ TransferSaveToTx(r)
    \/ Fail(r)

TransferSpec == TransferInit /\ [][TransferNext]_vars

\* --------------------------------------- ContestService.completeContest
\* POST /contests/:id/complete by the brand that owns the contest.  The
\* contest has ended and has one submission, by the user, who is the one
\* winner; the prize is the contest's prize_pool.
PrizeAmounts == {5000}

\* the contest is read; the end date and the status are checked; the
\* submissions and their metrics are read and scored
CompleteContestFind(r, prize) ==
  /\ CanStart(r)
  /\ LET started == [IdleReq EXCEPT !.kind = "complete_contest",
                                    !.amount = prize]
     IN req' = [req EXCEPT ![r] =
          IF contest.status = "completed"
            THEN Answered(started, "completed400")
            ELSE [started EXCEPT !.pc = "cc_status"]]
  /\ UNCHANGED <<dbVars, gateway, userType, feeAmount, feeResult>>

\* contest.status = COMPLETED; save(contest)
CompleteContestSaveStatus(r) ==
  /\ req[r].pc = "cc_status"
  /\ contest' = [contest EXCEPT !.status = "completed"]
  /\ req' = [req EXCEPT ![r].pc = "cc_wallet"]
  /\ UNCHANGED <<wallet, otherWallet, transactions, ledger, withdrawals,
                 bankAccounts, gateway, userType, feeAmount, feeResult>>

\* the winner's wallet is read
CompleteContestFindWallet(r) ==
  /\ req[r].pc = "cc_wallet"
  /\ req' = [req EXCEPT ![r].pc = "cc_credit", ![r].w = wallet]
  /\ UNCHANGED <<dbVars, gateway, userType, feeAmount, feeResult>>

\* winnerWallet.balance += prize; total_earned += prize; save
CompleteContestSaveWallet(r) ==
  /\ req[r].pc = "cc_credit"
  /\ wallet' = Save([req[r].w EXCEPT !.balance = @ + req[r].amount,
                                     !.total_earned = @ + req[r].amount])
  /\ req' = [req EXCEPT ![r].pc = "cc_tx", ![r].w = NoWallet]
  /\ UNCHANGED <<otherWallet, transactions, ledger, withdrawals, contest,
                 bankAccounts, gateway, userType, feeAmount, feeResult>>

\* the contest_prize Transaction; the call returns
CompleteContestSaveTx(r) ==
  /\ req[r].pc = "cc_tx"
  /\ transactions' = Append(transactions,
        Transaction("contest_prize", "completed", req[r].amount, NoRef))
  /\ Finish(r, "ok200")
  /\ UNCHANGED <<wallet, otherWallet, ledger, withdrawals, contest,
                 bankAccounts, gateway, userType, feeAmount, feeResult>>

\* the winner is a creator
ContestInit == Init /\ userType = "creator"

ContestNext ==
  \E r \in Reqs :
    \/ \E p \in PrizeAmounts : CompleteContestFind(r, p)
    \/ CompleteContestSaveStatus(r)
    \/ CompleteContestFindWallet(r)
    \/ CompleteContestSaveWallet(r)
    \/ CompleteContestSaveTx(r)
    \/ Fail(r)

ContestSpec == ContestInit /\ [][ContestNext]_vars

\* --------------------------------------- the withdrawal of 400 out of 1000
\* A creator whose wallet holds 1000.00 (one add-funds of 1000.00) issues
\* withdrawal requests of 400.00.
ScenarioInit ==
  /\ userType = "creator"
  /\ wallet = [NewWallet EXCEPT !.balance = 100000]
  /\ transactions = << Transaction("deposit", "completed", 100000, NoRef) >>
  /\ ledger = <<>>
  /\ withdrawals = <<>>
  /\ contest = NewContest
  /\ bankAccounts = BankAccountIds
  /\ otherWallet = NewWallet
  /\ gateway = [ref \in Refs |-> 0]
  /\ req = [r \in Reqs |-> IdleReq]
  /\ feeAmount = 0
  /\ feeResult = <<>>

ScenarioNext ==
  \E r \in Reqs :
    \/ \E a \in WithdrawAmounts, acc \in AccountInputs :
          WithdrawRequest(r, a, acc)
    \/ WithdrawHoldRead(r)
    \/ WithdrawHoldCommit(r)
    \/ WithdrawSaveRow(r)
    \/ \E ok \in BOOLEAN : WithdrawTransfer(r, ok)
    \/ WithdrawRefundCommit(r)
    \/ WithdrawSettleCommit(r)
    \/ Fail(r)

ScenarioSpec == ScenarioInit /\ [][ScenarioNext]_vars

\* ------------------------------------- WalletService.updateTransactionStatus
TransactionStatuses == {"pending", "completed", "failed", "cancelled"}

TerminalStatuses == {"completed", "failed", "cancelled"}

\* getTransactionById, transaction.status = status, save: called by
\* service-level code while no request is in flight
UpdateTransactionStatus(transactionId, status) ==
  /\ transactionId \in 1..Len(transactions)
  /\ \A r \in Reqs : req[r].pc \in {"idle", "done"}
  /\ transactions' = SetStatus(transactions, transactionId, status)
  /\ UNCHANGED <<wallet, ledger, withdrawals, contest, gateway, userType, req,
                 feeAmount, feeResult,
                 bankAccounts, otherWallet>>

ServiceNext ==
  \/ Next
  \/ \E i \in 1..(2 * NumReqs), st \in TransactionStatuses :
        UpdateTransactionStatus(i, st)

ServiceSpec == Init /\ [][ServiceNext]_vars

\* ------------------------- registration and WalletService.getWalletByUserId
\* Here the user may not exist yet (userType = "absent") and the wallets
\* table may hold no row for the user (wallet = NoWallet).  The table has
\* the unique index REL_wallets_user_id: a second INSERT for the user
\* throws a duplicate-key error.
NoUser == "absent"

\* POST /auth/register: the user (and profile) are saved
RegisterSaveUser(r, type) ==
  /\ CanStart(r)
  /\ userType = NoUser
  /\ userType' = type
  /\ req' = [req EXCEPT ![r] = [IdleReq EXCEPT !.kind = "register",
                                  !.pc = "rg_wallet"]]
  /\ UNCHANGED <<dbVars, gateway, feeAmount, feeResult>>

\* POST /auth/register: the wallet is saved, then the token is issued
RegisterSaveWallet(r) ==
  /\ req[r].pc = "rg_wallet"
  /\ IF wallet = NoWallet
       THEN wallet' = Save(NewWallet) /\ Finish(r, "registered201")
       ELSE UNCHANGED wallet /\ Finish(r, "internal500")
  /\ UNCHANGED <<transactions, ledger, withdrawals, contest, gateway, userType,
                 feeAmount, feeResult,
                 bankAccounts, otherWallet>>

\* getWalletByUserId: the user lookup
GetWalletFindUser(r) ==
  /\ CanStart(r)
  /\ LET started == [IdleReq EXCEPT !.kind = "get_wallet"]
     IN req' = [req EXCEPT ![r] =
          IF userType = NoUser THEN Answered(started, "user_not_found")
          ELSE [started EXCEPT !.pc = "gw_find"]]
  /\ UNCHANGED <<dbVars, gateway, userType, feeAmount, feeResult>>

\* getWalletByUserId: the wallet lookup
GetWalletFind(r) ==
  /\ req[r].pc = "gw_find"
  /\ IF wallet # NoWallet
       THEN Finish(r, "wallet_returned")
       ELSE req' = [req EXCEPT ![r].pc = "gw_create"]
  /\ UNCHANGED <<dbVars, gateway, userType, feeAmount, feeResult>>

\* createWallet: the second lookup
CreateWalletFind(r) ==
  /\ req[r].pc = "gw_create"
  /\ IF wallet # NoWallet
       THEN Finish(r, "wallet_returned")
       ELSE req' = [req EXCEPT ![r].pc = "gw_insert"]
  /\ UNCHANGED <<dbVars, gateway, userType, feeAmount, feeResult>>

\* createWallet: save(new Wallet()); the INSERT throws when the user has
\* a wallet by now
CreateWalletSave(r) ==
  /\ req[r].pc = "gw_insert"
  /\ IF wallet = NoWallet
       THEN wallet' = Save(NewWallet) /\ Finish(r, "wallet_returned")
       ELSE UNCHANGED wallet /\ Finish(r, "duplicate_error")
  /\ UNCHANGED <<transactions, ledger, withdrawals, contest, gateway, userType,
                 feeAmount, feeResult,
                 bankAccounts, otherWallet>>

\* Nobody has registered; or the user exists without a wallet (a
\* registration whose wallet save failed), with a new wallet, or with a
\* wallet funded by one add-funds.
WalletInit ==
  /\ \/ /\ userType = NoUser
        /\ wallet = NoWallet
        /\ transactions = <<>>
     \/ /\ userType \in {"brand", "creator"}
        /\ wallet \in {NoWallet, NewWallet}
        /\ transactions = <<>>
     \/ \E a \in FundAmounts :
          /\ userType \in {"brand", "creator"}
          /\ wallet = [NewWallet EXCEPT !.balance = a]
          /\ transactions = << Transaction("deposit", "completed", a, NoRef) >>
  /\ ledger = <<>>
  /\ withdrawals = <<>>
  /\ contest = NewContest
  /\ bankAccounts = BankAccountIds
  /\ otherWallet = NewWallet
  /\ gateway = [ref \in Refs |-> 0]
  /\ req = [r \in Reqs |-> IdleReq]
  /\ feeAmount = 0
  /\ feeResult = <<>>

WalletNext ==
  \E r \in Reqs :
    \/ \E type \in {"brand", "creator"} : RegisterSaveUser(r, type)
    \/ RegisterSaveWallet(r)
    \/ GetWalletFindUser(r)
    \/ GetWalletFind(r)
    \/ CreateWalletFind(r)
    \/ CreateWalletSave(r)
    \/ \E a \in FundAmounts :
          userType # NoUser /\ wallet # NoWallet /\ AddFundsRead(r, a)
    \/ AddFundsSaveWallet(r)
    \/ AddFundsSaveTx(r)
    \/ Fail(r)

WalletSpec == WalletInit /\ [][WalletNext]_vars

\* ------------------------------------------------- lookups by id
WithdrawalIdInputs ==
  (1..NumReqs) \cup OtherWithdrawalIds \cup MissingWithdrawalIds

BankAccountIdInputs == BankAccountIds \cup {MissingId}

\* GET /withdrawals/:id
GetWithdrawal(r, id) ==
  /\ CanStart(r)
  /\ LET started == [IdleReq EXCEPT !.kind = "get_withdrawal"]
     IN req' = [req EXCEPT ![r] =
          Answered(started, IF FindWithdrawal(id, Me) THEN "ok200"
                            ELSE "notfound404")]
  /\ UNCHANGED <<dbVars, gateway, userType, feeAmount, feeResult>>

\* DELETE /bank-accounts/:id: the lookup
DeleteBankAccountFind(r, id) ==
  /\ CanStart(r)
  /\ LET started == [IdleReq EXCEPT !.kind = "delete_account"]
     IN req' = [req EXCEPT ![r] =
          IF FindBankAccount(id, Me)
            THEN [started EXCEPT !.pc = "ba_remove", !.ref = id]
            ELSE Answered(started, "notfound404")]
  /\ UNCHANGED <<dbVars, gateway, userType, feeAmount, feeResult>>

\* DELETE /bank-accounts/:id: repo.remove(account)
DeleteBankAccountRemove(r) ==
  /\ req[r].pc = "ba_remove"
  /\ bankAccounts' = bankAccounts \ {req[r].ref}
  /\ Finish(r, "ok200")
  /\ UNCHANGED <<wallet, otherWallet, transactions, ledger, withdrawals,
                 contest, gateway, userType, feeAmount, feeResult>>

LookupNext ==
  \E r \in Reqs :
    \/ \E id \in WithdrawalIdInputs : GetWithdrawal(r, id)
    \/ \E id \in BankAccountIdInputs : DeleteBankAccountFind(r, id)
    \/ DeleteBankAccountRemove(r)
    \/ \E a \in WithdrawAmounts, acc \in AccountInputs :
          WithdrawRequest(r, a, acc)
    \/ WithdrawHoldRead(r)
    \/ WithdrawHoldCommit(r)
    \/ WithdrawSaveRow(r)
    \/ \E ok \in BOOLEAN : WithdrawTransfer(r, ok)
    \/ WithdrawRefundCommit(r)
    \/ WithdrawSettleCommit(r)

LookupSpec == Init /\ [][LookupNext]_vars

\* ============================================================ properties
Quiescent == \A r \in Reqs : req[r].pc \in {"idle", "done"}

NoFailures == \A r \in Reqs : req[r].resp \notin {"internal500", "failed400"}

\* no two requests have run at the same time: only the first slot is used
OneRequestOnly == \A r \in Reqs : r > 1 => req[r].pc = "idle"

RECURSIVE GatewayReceived(_)
\* what the gateway has received for a set of references
GatewayReceived(refs) ==
  IF refs = {} THEN 0
  ELSE LET ref == CHOOSE x \in refs : TRUE
       IN gateway[ref] + GatewayReceived(refs \ {ref})

RECURSIVE LedgerFold(_)
\* credit adds its amount, debit subtracts its amount, in creation order
LedgerFold(entries) ==
  IF entries = <<>> THEN 0
  ELSE LET last == entries[Len(entries)]
       IN LedgerFold(SubSeq(entries, 1, Len(entries) - 1))
            + (IF last.entry_type = "credit" THEN last.amount ELSE -last.amount)

RECURSIVE Unledgered(_)
\* what the routes that write no ledger at all have moved: add-funds
\* deposits (no reference) in, contest boosts out
Unledgered(txs) ==
  IF txs = <<>> THEN 0
  ELSE LET last == txs[Len(txs)]
       IN Unledgered(SubSeq(txs, 1, Len(txs) - 1))
            + (IF /\ last.transaction_type = "deposit"
                  /\ last.status = "completed"
                  /\ last.reference = NoRef THEN last.amount
               ELSE IF last.transaction_type = "contest_boost"
                 THEN -last.amount
               ELSE 0)

DepositCredits(reference) ==
  {i \in 1..Len(ledger) : /\ ledger[i].context = "deposit"
                          /\ ledger[i].reference = reference}

CompletedDeposits(reference) ==
  {i \in 1..Len(transactions) : /\ transactions[i].transaction_type = "deposit"
                                /\ transactions[i].status = "completed"
                                /\ transactions[i].reference = reference}

\* C1: in every state of every interleaving of the requests (deposit
\* verification, withdrawal hold, refund and settle among them), the
\* wallet's balance and pending_balance are both >= 0.
NoNegativeBalances ==
  /\ wallet.balance >= 0
  /\ wallet.pending_balance >= 0

\* a hold of the whole balance has committed and its refund has not
HoldOfWholeBalanceCommitted ==
  /\ wallet.balance = 0
  /\ wallet.pending_balance > 0
  /\ \E i \in 1..Len(ledger) : ledger[i].context = "withdrawal_hold"

\* C2: of two withdrawal requests in flight that passed the pre-check on
\* the same wallet state, each for the whole balance, at most one has
\* committed its hold.
TwoHoldsNeverBothCommitted ==
  \A r1, r2 \in Reqs :
    ( /\ r1 # r2
      /\ req[r1].kind = "withdraw"
      /\ req[r2].kind = "withdraw"
      /\ req[r1].wallet # NoWallet
      /\ req[r1].wallet = req[r2].wallet
      /\ req[r1].amount = req[r1].wallet.balance
      /\ req[r2].amount = req[r1].wallet.balance )
    => ~(req[r1].tx # 0 /\ req[r2].tx # 0)

\* C3: for every gateway reference, however many verify requests name it,
\* the ledger holds at most one credit entry with context deposit, and the
\* wallet has been credited with no more than the gateway received.
CreditedAtMostOncePerReference ==
  /\ \A ref \in Refs : Cardinality(DepositCredits(ref)) <= 1
  /\ wallet.total_deposited <= GatewayReceived(Refs)

\* C4: once the one request that has run has been answered, with or
\* without a failure, the wallet credit, the completed Transaction and the
\* credit ledger entry of a reference are all persisted or none is.
DepositWritesAllOrNone ==
  (Quiescent /\ OneRequestOnly)
  => \A ref \in Refs :
       \/ /\ wallet.total_deposited > 0
          /\ CompletedDeposits(ref) # {}
          /\ DepositCredits(ref) # {}
       \/ /\ wallet.total_deposited = 0
          /\ CompletedDeposits(ref) = {}
          /\ DepositCredits(ref) = {}

\* C5: in every state in which the one request that has run has been
\* answered without a failure, the fold of the ledger in creation order
\* (credit +amount, debit -amount), taken together with the movements of
\* the routes that keep no ledger, equals the wallet's balance.
LedgerReplayEqualsBalance ==
  (Quiescent /\ NoFailures /\ OneRequestOnly)
  => LedgerFold(ledger) + Unledgered(transactions) = wallet.balance

\* C6: every step that lowers the wallet's balance appends, in the same
\* step, a debit ledger entry of the amount the balance went down by.
DecrementHasDebitEntry ==
  [][wallet'.balance < wallet.balance
       => /\ Len(ledger') > Len(ledger)
          /\ ledger'[Len(ledger) + 1].entry_type = "debit"
          /\ ledger'[Len(ledger) + 1].amount = wallet.balance - wallet'.balance
    ]_vars

\* C7: once a withdrawal request whose gateway call has answered is itself
\* answered, its Withdrawal is completed or failed, not processing.
WithdrawalTerminalOnceHandled ==
  \A r \in Reqs :
    (req[r].kind = "withdraw" /\ req[r].pc = "done" /\ req[r].transfer # "none")
    => withdrawals[req[r].wd].status \in {"completed", "failed"}

FailedTransferIsRefunded ==
  \A r \in Reqs :
    (req[r].kind = "withdraw" /\ req[r].pc = "done" /\ req[r].transfer = "failed")
    => /\ withdrawals[req[r].wd].status = "failed"
       /\ transactions[req[r].tx].status = "failed"
       /\ RefundRuns(req[r].tx) >= 1

\* C10: for every amount a (in kobo), fee = p + 10000 where p is a / 40
\* rounded to the nearest kobo (half up), net = max(0, a - fee) >= 0;
\* 10000.00 gives fee 350.00 and net 9650.00, 50.00 gives fee 101.25 and
\* net 0.
FeeArithmetic ==
  feeResult # <<>>
  => LET fee == feeResult[1]
         net == feeResult[2]
         p == fee - 10000
     IN /\ 40 * p - 20 <= feeAmount
        /\ feeAmount < 40 * p + 20
        /\ net = Max(0, feeAmount - fee)
        /\ net >= 0
        /\ feeAmount = 1000000 => (fee = 35000 /\ net = 965000)
        /\ feeAmount = 5000 => (fee = 10125 /\ net = 0)

\* the hold of the first request has committed and stage 2 has not
HoldPlaced(q) ==
  /\ q.kind = "withdraw"
  /\ q.tx # 0
  /\ q.pc \in {"wd_row", "wd_transfer", "wd_settle_commit", "wd_refund_commit"}

\* the ledger is exactly the three rows of one settled withdrawal
ThreeLedgerRows(txId, amount, net, fee) ==
  /\ Len(ledger) = 3
  /\ ledger[1].context = "withdrawal_hold"
  /\ ledger[1].amount = amount
  /\ ledger[1].transaction_id = txId
  /\ ledger[2].context = "withdrawal_settle"
  /\ ledger[2].amount = net
  /\ ledger[2].transaction_id = txId
  /\ ledger[3].context = "withdrawal_fee"
  /\ ledger[3].amount = fee

ScenarioOutcome(net, fee) ==
  OneRequestOnly
  => /\ HoldPlaced(req[1])
          => wallet.balance = 60000 /\ wallet.pending_balance = 40000
     /\ req[1].resp = "created201"
          => /\ wallet.balance = 60000
             /\ wallet.pending_balance = 0
             /\ withdrawals[req[1].wd].status = "completed"
             /\ ThreeLedgerRows(req[1].tx, 40000, net, fee)

\* C11 (amended): from balance 1000.00, a withdrawal of 400.00 places a
\* hold giving balance 600.00 and pending_balance 400.00; when the gateway
\* succeeds: balance 600.00, pending_balance 0, Withdrawal completed, and
\* exactly three ledger rows: the hold, a settle entry of 290.00 (net) and
\* a fee entry of 110.00 (2.5% of 400.00 plus the fixed 100.00).
ScenarioSettles290Fee110 == ScenarioOutcome(29000, 11000)

\* the one withdrawal of the scenario has been settled
ScenarioSettled ==
  /\ OneRequestOnly
  /\ req[1].resp = "created201"
  /\ Len(ledger) = 3

\* C11 as stated: the same scenario with a settle entry of 390.00 and a
\* fee entry of 10.00.
ScenarioSettles390Fee10 == ScenarioOutcome(39000, 1000)

WithReference(reference) ==
  {i \in 1..Len(transactions) : transactions[i].reference = reference}

\* the only request so far is a verify that answered 200 (fallback path)
VerifiedAlone ==
  /\ OneRequestOnly
  /\ req[1].kind = "deposit_verify"
  /\ req[1].resp = "ok200"

\* the only requests so far are an init that answered 200 and, after it,
\* a verify that answered 200 (expected path)
VerifiedAfterInit ==
  /\ req[1].kind = "deposit_init"
  /\ req[1].resp = "ok200"
  /\ req[2].kind = "deposit_verify"
  /\ req[2].resp = "ok200"
  /\ \A r \in Reqs : r > 2 => req[r].pc = "idle"

\* the wallet holds its earlier funds and one credit of what the gateway
\* received; one ledger credit and one completed Transaction carry the
\* reference
CreditedOnce(ref) ==
  /\ wallet.balance = Unledgered(transactions) + gateway[ref]
  /\ wallet.total_deposited = gateway[ref]
  /\ Cardinality(DepositCredits(ref)) = 1
  /\ \A i \in DepositCredits(ref) :
       ledger[i].entry_type = "credit" /\ ledger[i].amount = gateway[ref]
  /\ Cardinality(WithReference(ref)) = 1
  /\ CompletedDeposits(ref) = WithReference(ref)

\* C12: a deposit verification that runs alone and succeeds credits
\* balance and total_deposited once by the amount the gateway reports and
\* appends one credit ledger entry with context deposit; after an init the
\* pending Transaction of the init is completed and no Transaction is
\* created, without one exactly one completed Transaction is created.
DepositVerifyCreditsOnce ==
  \A ref \in Refs :
    /\ VerifiedAlone => CreditedOnce(ref)
    /\ VerifiedAfterInit
         => CreditedOnce(ref) /\ WithReference(ref) = {req[1].tx}

\* an init and then a verify have answered 200 (the expected path)
VerifiedPendingDeposit ==
  /\ VerifiedAfterInit
  /\ wallet.total_deposited > 0
  /\ transactions[req[1].tx].status = "completed"

\* C13: every step that appends ledger entries leaves the wallet row with
\* the balance those entries carry as balance_after, whatever other
\* requests have done to the wallet in between.
BalanceAfterIsPersistedBalance ==
  [][\A i \in (Len(ledger) + 1)..Len(ledger') :
        ledger'[i].balance_after = wallet'.balance]_vars

\* C14: a Transaction is created pending or terminal, and once it is
\* terminal (completed, failed, cancelled) no step changes its status.
TerminalTransactionStaysTerminal ==
  [][/\ \A i \in 1..Len(transactions) :
          transactions[i].status \in TerminalStatuses
            => transactions'[i].status = transactions[i].status
     /\ \A i \in (Len(transactions) + 1)..Len(transactions') :
          transactions'[i].status \in TransactionStatuses]_vars

\* C15: a withdrawal request that passes the balance pre-check goes on to
\* the hold only with exactly one destination shape (a saved account id of
\* the user, or complete inline details); an id that is not the user's is
\* answered 404, neither shape or both shapes is answered 400, and none of
\* these answers changes wallet, transactions, ledger or withdrawals.
OneDestinationShape ==
  [][\A r \in Reqs, a \in WithdrawAmounts, acc \in AccountInputs :
        (WithdrawRequest(r, a, acc) /\ ~InsufficientBalance(wallet, a))
        => /\ acc \in {"saved", "inline"} => req'[r].pc = "wd_hold"
           /\ acc \in {"unknown_id", "foreign_id"}
                => req'[r].resp = "account404"
           /\ acc \in {"none", "both"} => req'[r].resp = "details400"
           /\ UNCHANGED dbVars]_vars

\* C16: every getWalletByUserId call that has returned either failed with
\* user-not-found and created nothing, or returned the user's one wallet;
\* no call ends in another error.
EveryCallerReceivesTheWallet ==
  \A r \in Reqs :
    (req[r].kind = "get_wallet" /\ req[r].pc = "done")
    => \/ req[r].resp = "wallet_returned" /\ wallet # NoWallet
       \/ req[r].resp = "user_not_found"

OtherBankAccountIds == {id \in BankAccountIds : BankAccountOwner[id] = Other}

\* C17: a lookup by the id of a row another user owns (a withdrawal, a
\* bank account to delete, the bank account of a withdrawal request) is
\* the same step as the lookup by an id no row has: the same 404 answer
\* and no change to any table.
ScopedLookups ==
  [][\A r \in Reqs :
       /\ \A id \in OtherWithdrawalIds, none \in MissingWithdrawalIds :
            /\ GetWithdrawal(r, id) <=> GetWithdrawal(r, none)
            /\ GetWithdrawal(r, id)
                 => req'[r].resp = "notfound404" /\ UNCHANGED dbVars
       /\ \A id \in OtherBankAccountIds :
            /\ DeleteBankAccountFind(r, id)
                 <=> DeleteBankAccountFind(r, MissingId)
            /\ DeleteBankAccountFind(r, id)
                 => req'[r].resp = "notfound404" /\ UNCHANGED dbVars
       /\ \A a \in WithdrawAmounts :
            /\ WithdrawRequest(r, a, "foreign_id")
                 <=> WithdrawRequest(r, a, "unknown_id")
            /\ (WithdrawRequest(r, a, "foreign_id")
                  /\ ~InsufficientBalance(wallet, a))
                 => req'[r].resp = "account404" /\ UNCHANGED dbVars]_vars

\* a delete has been answered 404 while the other user's account exists,
\* and it still exists
DeleteAnsweredNotFound ==
  /\ \E r \in Reqs :
       req[r].kind = "delete_account" /\ req[r].resp = "notfound404"
  /\ OtherBankAccountIds \subseteq bankAccounts

RECURSIVE Moved(_)
\* what the answered requests have moved into and out of the balance
\* according to their Transactions: deposits in, boosts and withdrawal
\* holds that were not refunded out
Moved(txs) ==
  IF txs = <<>> THEN 0
  ELSE LET last == txs[Len(txs)]
       IN Moved(SubSeq(txs, 1, Len(txs) - 1))
            + (IF last.transaction_type = "deposit" /\ last.status = "completed"
                 THEN last.amount
               ELSE IF last.transaction_type = "contest_boost"
                 THEN -last.amount
               ELSE IF /\ last.transaction_type = "withdrawal"
                       /\ last.status \in {"pending", "completed"}
                 THEN -last.amount
               ELSE 0)

RECURSIVE Held(_)
\* the amounts of the holds that are neither settled nor refunded
Held(txs) ==
  IF txs = <<>> THEN 0
  ELSE LET last == txs[Len(txs)]
       IN Held(SubSeq(txs, 1, Len(txs) - 1))
            + (IF last.transaction_type = "withdrawal" /\ last.status = "pending"
                 THEN last.amount ELSE 0)

\* a crediting request c and a withdrawal request h are the only requests
\* that ran; the credit is answered and the hold of h is committed
CreditAndHoldCommitted(c, h) ==
  /\ c # h
  /\ \A r \in Reqs \ {c, h} : req[r].pc = "idle"
  /\ req[c].kind = "add_funds" /\ req[c].pc = "done" /\ req[c].resp = "ok200"
  /\ HoldPlaced(req[h]) /\ req[h].pc = "wd_row"

PendingHolds ==
  {i \in 1..Len(transactions) :
     /\ transactions[i].transaction_type = "withdrawal"
     /\ transactions[i].status = "pending"}

\* the Withdrawal rows that reference Transaction i
RowsOf(i) == {j \in 1..Len(withdrawals) : withdrawals[j].transaction_id = i}

\* C19: the Withdrawal row is created in the same atomic step as the hold:
\* in every committed state each pending withdrawal hold Transaction has a
\* Withdrawal row referencing it, and each processing Withdrawal row
\* references a withdrawal Transaction, also after a failure directly
\* after the hold commits.
HoldAndRowTogether ==
  /\ \A i \in PendingHolds : RowsOf(i) # {}
  /\ \A j \in 1..Len(withdrawals) :
       withdrawals[j].status = "processing"
       => /\ withdrawals[j].transaction_id \in 1..Len(transactions)
          /\ transactions[withdrawals[j].transaction_id].transaction_type
               = "withdrawal"

\* C20: a successful stage-1 hold of amount a, on the wallet as the hold
\* read it, decreases balance by exactly a and increases pending_balance by
\* exactly a, so that their sum is unchanged; it creates exactly one
\* Transaction, of type withdrawal and status pending, and appends exactly
\* one ledger entry, a debit with context withdrawal_hold that references
\* the Transaction and whose balance_after is the new balance.
HoldMovesAmountToPending ==
  [][\A r \in Reqs :
       WithdrawHoldCommit(r)
       => LET a == req[r].amount
          IN /\ a > 0
             /\ wallet'.balance = req[r].w.balance - a
             /\ wallet'.pending_balance = req[r].w.pending_balance + a
             /\ req[r].w = wallet
                  => /\ wallet'.balance = wallet.balance - a
                     /\ wallet'.pending_balance = wallet.pending_balance + a
                     /\ wallet'.balance + wallet'.pending_balance
                          = wallet.balance + wallet.pending_balance
                     /\ wallet'.total_deposited = wallet.total_deposited
             /\ Len(transactions') = Len(transactions) + 1
             /\ SubSeq(transactions', 1, Len(transactions)) = transactions
             /\ transactions'[Len(transactions')]
                  = Transaction("withdrawal", "pending", a, NoRef)
             /\ Len(ledger') = Len(ledger) + 1
             /\ SubSeq(ledger', 1, Len(ledger)) = ledger
             /\ LET entry == ledger'[Len(ledger')]
                IN /\ entry.entry_type = "debit"
                   /\ entry.context = "withdrawal_hold"
                   /\ entry.amount = a
                   /\ entry.transaction_id = Len(transactions')
                   /\ entry.balance_after = wallet'.balance
             /\ withdrawals' = withdrawals]_vars

\* one withdrawal request, the only request so far, has committed its hold
HoldCommittedAlone ==
  /\ OneRequestOnly
  /\ req[1].kind = "withdraw"
  /\ req[1].pc = "wd_row"
  /\ wallet.pending_balance = req[1].amount
  /\ Len(ledger) = 1
  /\ ledger[1].context = "withdrawal_hold"
  /\ transactions[req[1].tx].status = "pending"

\* the stage-1 hold of request q has committed: its pending withdrawal
\* Transaction and its withdrawal_hold ledger entry are in the tables
HoldIsCommitted(q) ==
  /\ q.tx \in 1..Len(transactions)
  /\ transactions[q.tx]
       = Transaction("withdrawal", "pending", q.amount, NoRef)
  /\ \E i \in 1..Len(ledger) :
       /\ ledger[i].context = "withdrawal_hold"
       /\ ledger[i].transaction_id = q.tx

\* C21: a withdrawal's bank transfer is initiated only after its stage-1
\* hold has committed (no request that has not committed its hold has
\* posted a transfer); while the gateway call is in flight the hold is
\* committed, the amount posted is the Withdrawal's net_amount, amount
\* minus fee, and the request has no database transaction open.
TransferAfterHoldOutsideTransaction ==
  \A r \in Reqs :
    /\ (req[r].kind = "withdraw" /\ req[r].pc \in {"wd_hold", "wd_hold_commit", "wd_row"})
         => req[r].sent = -1
    /\ req[r].pc = "wd_transfer"
         => /\ HoldIsCommitted(req[r])
            /\ req[r].wd \in 1..Len(withdrawals)
            /\ withdrawals[req[r].wd].transaction_id = req[r].tx
            /\ req[r].sent = withdrawals[req[r].wd].net_amount
            /\ req[r].sent = Max(0, req[r].amount - withdrawals[req[r].wd].fee)
            /\ req[r].sent < req[r].amount
            /\ ~req[r].open

\* the gateway call of a withdrawal is in flight
TransferInFlight ==
  \E r \in Reqs :
    /\ req[r].pc = "wd_transfer"
    /\ req[r].sent > 0
    /\ withdrawals[req[r].wd].status = "processing"

\* C22: the refund of stage 2A is a full reversal of the hold.  On a wallet
\* that still carries the hold as the refund read it, the refund adds
\* exactly amount to balance and takes exactly amount from pending_balance;
\* when no other request has run since before the hold, balance,
\* pending_balance and total_deposited are back at their pre-hold values.
\* The step marks the Withdrawal and the hold Transaction failed and
\* appends one ledger entry, a credit with context withdrawal_refund.
RefundReversesHold ==
  [][\A r \in Reqs :
       WithdrawRefundCommit(r)
       => LET a == req[r].amount
          IN /\ (req[r].w = wallet /\ wallet.pending_balance >= a)
                  => /\ wallet'.balance = wallet.balance + a
                     /\ wallet'.pending_balance = wallet.pending_balance - a
                     /\ wallet'.total_deposited = wallet.total_deposited
             /\ OneRequestOnly
                  => /\ wallet.balance = req[r].wallet.balance - a
                     /\ wallet.pending_balance
                          = req[r].wallet.pending_balance + a
                     /\ wallet' = req[r].wallet
             /\ withdrawals'[req[r].wd].status = "failed"
             /\ withdrawals'[req[r].wd].transaction_id = req[r].tx
             /\ transactions'[req[r].tx].status = "failed"
             /\ transactions'[req[r].tx].transaction_type = "withdrawal"
             /\ Len(transactions') = Len(transactions)
             /\ Len(withdrawals') = Len(withdrawals)
             /\ Len(ledger') = Len(ledger) + 1
             /\ SubSeq(ledger', 1, Len(ledger)) = ledger
             /\ ledger'[Len(ledger')]
                  = WalletLedger("credit", a, wallet'.balance, req[r].tx,
                                 "withdrawal_refund", NoRef)]_vars

\* one withdrawal, the only request so far, was held and then refunded
HeldThenRefundedAlone ==
  /\ OneRequestOnly
  /\ req[1].kind = "withdraw"
  /\ req[1].resp = "transfer400"
  /\ wallet.pending_balance = 0
  /\ wallet.balance = withdrawals[req[1].wd].amount
  /\ Len(ledger) = 2
  /\ ledger[2].context = "withdrawal_refund"

\* every request other than r is a deposit by add-funds, or has not started
OnlyDepositsBeside(r) ==
  \A q \in Reqs \ {r} : req[q].kind \in {"none", "add_funds"}

\* what the settle step of request r does to the wallet, the Transactions
\* and the Withdrawal, for amount a
SettleWrites(r, a) ==
  /\ wallet'.balance = wallet.balance
  /\ wallet'.total_deposited = wallet.total_deposited
  /\ wallet'.pending_balance = wallet.pending_balance - a
  /\ transactions'[req[r].tx].status = "completed"
  /\ withdrawals'[req[r].wd].status = "completed"
  /\ Len(withdrawals') = Len(withdrawals)
  /\ Len(transactions') = Len(transactions) + 1
  /\ transactions'[Len(transactions')]
       = Transaction("withdrawal_fee", "completed",
                     withdrawals[req[r].wd].fee, NoRef)

\* the two ledger entries of the settle step of request r, carrying
\* balanceAfter
SettleEntries(r, balanceAfter) ==
  /\ Len(ledger') = Len(ledger) + 2
  /\ SubSeq(ledger', 1, Len(ledger)) = ledger
  /\ ledger'[Len(ledger) + 1]
       = WalletLedger("debit", withdrawals[req[r].wd].net_amount, balanceAfter,
                      req[r].tx, "withdrawal_settle", NoRef)
  /\ ledger'[Len(ledger) + 2]
       = WalletLedger("debit", withdrawals[req[r].wd].fee, balanceAfter,
                      Len(transactions'), "withdrawal_fee", NoRef)

\* C23: the settle of stage 2B, on a wallet that carried the hold when the
\* settle read it, subtracts amount from pending_balance and leaves
\* balance unchanged, also when deposits on the same wallet commit
\* concurrently; it marks the hold Transaction and the Withdrawal
\* completed, creates exactly one completed withdrawal_fee Transaction and
\* appends exactly two debit ledger entries, withdrawal_settle for the net
\* amount and withdrawal_fee for the fee, whose balance_after is the
\* wallet's unchanged balance.
SettleLeavesBalance ==
  [][\A r \in Reqs :
       ( /\ WithdrawSettleCommit(r)
         /\ OnlyDepositsBeside(r)
         /\ req[r].w.pending_balance >= req[r].amount )
       => /\ SettleWrites(r, req[r].amount)
          /\ SettleEntries(r, wallet'.balance)]_vars

\* request r is answered in this step with resp, having written nothing
\* and called no gateway
RejectedWithout(r, resps) ==
  /\ req'[r].pc = "done"
  /\ req'[r].resp \in resps
  /\ req'[r].sent = -1
  /\ req'[r].transfer = "none"
  /\ UNCHANGED <<dbVars, gateway>>

\* C24: a withdrawal request for more than the wallet's balance, at the
\* pre-check or when the balance is read again inside the stage-1
\* transaction, is rejected with the insufficient-balance error and leaves
\* no partial state: the wallet, the Transactions, the ledger and the
\* Withdrawals are unchanged and the gateway is not called.
InsufficientIsRejectedCleanly ==
  [][\A r \in Reqs :
       /\ \A a \in WithdrawAmounts, acc \in AccountInputs :
            (WithdrawRequest(r, a, acc) /\ InsufficientBalance(wallet, a))
            => RejectedWithout(r, {"insufficient400"})
       /\ (WithdrawHoldRead(r) /\ InsufficientBalance(wallet, req[r].amount))
            => RejectedWithout(r, {"insufficient400"})]_vars

\* the verification of request r fails: the gateway reports failure or a
\* payment that is not successful, the expected amount differs from the
\* gateway's amount, or the pending Transaction's amount differs from it
VerificationFails(r, verified) ==
  LET amount == gateway[req[r].ref]
  IN \/ ~verified
     \/ amount = 0
     \/ req[r].expected # 0 /\ req[r].expected # amount
     \/ req[r].tx # 0 /\ transactions[req[r].tx].amount # amount

\* C25: a deposit verification that fails (the gateway reports failure or
\* a payment that is not successful, the expected amount differs from the
\* gateway's amount in minor units, or the pending Transaction's recorded
\* amount differs from it) is answered with an error and leaves the
\* wallet's balance and total_deposited, the pending Transaction's status
\* and the ledger unchanged: neither its lookup nor its checks write.
FailedVerificationWritesNothing ==
  [][\A r \in Reqs :
       /\ \A ref \in Refs, e \in ExpectedAmounts :
            DepositVerifyLookup(r, ref, e) => UNCHANGED dbVars
       /\ \A ok \in BOOLEAN :
            (DepositVerifyGateway(r, ok) /\ VerificationFails(r, ok))
            => /\ req'[r].pc = "done"
               /\ req'[r].resp \in {"verify400", "mismatch400", "recorded400"}
               /\ UNCHANGED dbVars]_vars

\* a verification was refused because the pending Transaction's amount is
\* not the gateway's, and the Transaction is still pending
RecordedMismatchRefused ==
  \E r \in Reqs :
    /\ req[r].kind = "deposit_verify"
    /\ req[r].resp = "recorded400"
    /\ transactions[req[r].tx].status = "pending"
    /\ wallet.total_deposited = 0
    /\ ledger = <<>>

\* the deposit with this reference was initialized by the other user
InitializedByOther(reference) ==
  \E i \in 1..Len(transactions) :
    /\ transactions[i].reference = reference
    /\ transactions[i].user_id = Other

\* C26: a gateway reference is credited only to the wallet of the user who
\* initialized the deposit: no step of a deposit-verify request of the
\* user for a reference whose pending Transaction belongs to the other
\* user increases the requesting user's balance.
ForeignReferenceNotCredited ==
  [][\A r \in Reqs :
       ( /\ req[r].kind = "deposit_verify"
         /\ InitializedByOther(req[r].ref)
         /\ req'[r] # req[r] )
       => /\ wallet'.balance <= wallet.balance
          /\ wallet'.total_deposited <= wallet.total_deposited]_vars

\* C27: in every committed state, for every interleaving of concurrent
\* withdrawal requests on the wallet, pending_balance is the sum of the
\* amounts of the withdrawals whose hold has committed and which are
\* neither settled nor refunded (their hold Transaction is pending).
PendingIsOpenHolds == wallet.pending_balance = Held(transactions)

\* C28: in every committed state each Withdrawal agrees with its hold
\* Transaction: it is completed exactly when the Transaction is completed,
\* failed exactly when it is failed and processing exactly when it is
\* pending; a completed Withdrawal has an external reference and a failed
\* one has a withdrawal_refund ledger entry.
WithdrawalAgreesWithHold ==
  \A j \in 1..Len(withdrawals) :
    LET wd == withdrawals[j]
        tx == transactions[wd.transaction_id]
    IN /\ tx.transaction_type = "withdrawal"
       /\ wd.status \in {"processing", "completed", "failed"}
       /\ wd.status = "completed" <=> tx.status = "completed"
       /\ wd.status = "failed" <=> tx.status = "failed"
       /\ wd.status = "processing" <=> tx.status = "pending"
       /\ wd.status = "completed" => wd.external_reference # "none"
       /\ wd.status = "failed" => RefundRuns(wd.transaction_id) >= 1

\* one Withdrawal has been refunded and another settled
OneFailedOneCompleted ==
  \E i, j \in 1..Len(withdrawals) :
    /\ withdrawals[i].status = "failed"
    /\ withdrawals[j].status = "completed"
    /\ transactions[withdrawals[j].transaction_id].status = "completed"

RECURSIVE Funded(_)
\* what has been paid into all wallets: the completed deposits
Funded(txs) ==
  IF txs = <<>> THEN 0
  ELSE LET last == txs[Len(txs)]
       IN Funded(SubSeq(txs, 1, Len(txs) - 1))
            + (IF last.transaction_type = "deposit" /\ last.status = "completed"
                 THEN last.amount ELSE 0)

\* C29: transferFunds conserves money.  Once the one call that has run
\* has returned, the sum of all wallet balances is what it was (sender
\* minus a, receiver plus a), also when sender and receiver are the same
\* user; a transfer of more than the sender's balance fails with
\* 'Insufficient balance' and leaves both wallets and the transactions
\* as they were.
TransferConservesMoney ==
  (OneRequestOnly /\ req[1].kind = "transfer" /\ req[1].pc = "done")
  => /\ req[1].resp \in {"transferred", "insufficient_error"}
          => wallet.balance + otherWallet.balance = Funded(transactions)
     /\ req[1].resp = "insufficient_error"
          => \A i \in 1..Len(transactions) :
               transactions[i].transaction_type # "transfer"

\* the contest_prize Transactions of the winner
PrizeTransactions ==
  {i \in 1..Len(transactions) :
     /\ transactions[i].transaction_type = "contest_prize"
     /\ transactions[i].user_id = Me}

\* C30: the prize of a contest is paid out at most once.  For any sequence
\* or interleaving of completeContest calls on the contest, the winner's
\* wallet is credited the prize at most once and at most one contest_prize
\* Transaction of the winner exists; a call on a contest that is already
\* completed changes no wallet.
PrizePaidAtMostOnce ==
  /\ Cardinality(PrizeTransactions) <= 1
  /\ wallet.total_earned \in {0} \cup PrizeAmounts
  /\ wallet.balance - Funded(transactions) \in {0} \cup PrizeAmounts

====
